---- MODULE Spec2Model ----
(***************************************************************************)
(* django-pgschemas: tenant schema lifecycle (TenantMixin.save / delete),  *)
(* scoped schema activation (TenantMixin.__enter__ / __exit__ / activate / *)
(* deactivate) and the primary-domain write path (DomainMixin.save).       *)
(*                                                                         *)
(* Tenants are identified by their schema_name, a number in TenantNames.   *)
(* The database is two sets: the tenant rows (records) and the schemas     *)
(* that exist in the catalog (schemas), plus the table of domain rows.     *)
(***************************************************************************)
EXTENDS Integers, Sequences, FiniteSets, TLC

\* ------------------------------------------------------------------ bounds
MaxTenants == 2
MaxDomains == 3
MaxDepth == 2
MaxObjects == 2
MaxSessionDepth == 1

TenantNames == 1..MaxTenants

\* A schema name that breaks the naming rule (one that starts with pg_, say),
\* next to the names that follow it.
InvalidName == MaxTenants + 1
SchemaNames == TenantNames \cup {InvalidName}

\* check_schema_name(name), the validator declared on the schema_name field:
\* TRUE for a name that follows the naming rule.
check_schema_name(n) == n \in TenantNames
Domains == 1..MaxDomains
TenantObjects == 1..MaxObjects

\* The three signals of django_pgschemas.signals, by the label of the step
\* that sends them.
Signals == {"post_sync", "needs_sync", "pre_drop"}

\* What a namespace creation can do: succeed, fail having created nothing, or
\* fail after the schema itself was created (a failure while syncing it).
CreateModes == {"ok", "fail_clean", "fail_partial"}

VARIABLES
    \* --- tenant lifecycle
    autoCreate,     \* TenantMixin.auto_create_schema of the tenant model
    autoDrop,       \* TenantMixin.auto_drop_schema of the tenant model
    records,        \* schema_names of the tenant rows in the database
    schemas,        \* schemas that exist in the database catalog
    lastCall,       \* the last TenantMixin.save / delete call: what it did
    \* --- scoped activation
    active,         \* connection.schema_name of each unit of work
    previous_schema,\* the previous_schema attribute of each tenant object
    objSchema,      \* the schema_name of each tenant object
    scopes,         \* per unit of work: the open "with" blocks, innermost last
    lastExit,       \* per unit of work: what the last __exit__ restored
    \* --- domains
    domains,        \* committed domain rows: id -> [tenant, is_primary] or NoRow
    tx              \* per unit of work: its DomainMixin.save call, running or last

lifecycleVars == <<autoCreate, autoDrop, records, schemas, lastCall>>
scopeVars == <<active, previous_schema, objSchema, scopes, lastExit>>
domainVars == <<domains, tx>>
vars == <<lifecycleVars, scopeVars, domainVars>>

\* connection.set_schema_to_public(): the shared schema, named apart from
\* every tenant's schema.
PUBLIC == 0

\* The previous_schema attribute of a tenant object that never entered a
\* "with" block: the attribute does not exist yet.
Unset == -1

Units == {"u1", "u2"}

\* A domain row that does not exist.
NoRow == [tenant |-> 0, is_primary |-> FALSE]

\* tenant = ForeignKey(..., on_delete=CASCADE): the domain rows of a deleted
\* tenant row go with it.
Cascade(rows, oldRecords, newRecords) ==
    [d \in Domains |->
        IF rows[d].tenant \in oldRecords \ newRecords THEN NoRow ELSE rows[d]]

\* ======================================================================
\* Tenant lifecycle: TenantMixin.save and TenantMixin.delete
\* ======================================================================

\* The running state of one call: the database, the steps taken so far (in
\* order), the steps that raised, and whether an exception is in flight.
CallState(recs, schs) ==
    [records |-> recs, schemas |-> schs, steps |-> <<>>, failed |-> {},
     raised |-> FALSE]

Step(st, label) == [st EXCEPT !.steps = Append(@, label)]

Raise(st, label) == [st EXCEPT !.failed = @ \cup {label}, !.raised = TRUE]

\* Signal.send(...): the receivers run synchronously in the caller; an
\* exception of a receiver propagates to the caller of send.
send(st, signal, raisers) ==
    LET s == Step(st, signal)
    IN  IF signal \in raisers THEN Raise(s, signal) ELSE s

\* utils.schema_exists(schema_name): a catalog query, no mutation.
schema_exists(st, n) == n \in st.schemas

\* utils.create_schema(schema_name, check_if_exists, ...): with
\* check_if_exists an existing schema is an AlreadyExists error without side
\* effects; otherwise the DDL runs and may fail, before or after the schema
\* itself was created.
create_schema(st, n, check_if_exists, mode) ==
    LET s == Step(st, "create_schema")
    IN  IF check_if_exists /\ schema_exists(st, n)
        THEN Raise(s, "create_schema")
        ELSE CASE mode = "ok" -> [s EXCEPT !.schemas = @ \cup {n}]
               [] mode = "fail_clean" -> Raise(s, "create_schema")
               [] mode = "fail_partial" ->
                    Raise([s EXCEPT !.schemas = @ \cup {n}], "create_schema")

\* utils.drop_schema(schema_name): cascading drop; dropping a schema that
\* does not exist succeeds.
drop_schema(st, n) ==
    [Step(st, "drop_schema") EXCEPT !.schemas = @ \ {n}]

\* models.Model.save: inserts the row of a new tenant (schema_name is
\* unique, so a second row of the same name is refused) or updates the row.
\* It runs no field validator: those run in full_clean, which save does not
\* call.
super_save(st, n, is_new) ==
    LET s == Step(st, "save_row")
    IN  IF is_new /\ n \in st.records
        THEN Raise(s, "save_row")
        ELSE [s EXCEPT !.records = @ \cup {n}]

\* models.Model.delete: removes the row, or fails leaving it.
super_delete(st, n, deleteFails) ==
    LET s == Step(st, "delete_row")
    IN  IF deleteFails
        THEN Raise(s, "delete_row")
        ELSE [s EXCEPT !.records = @ \ {n}]

\* Faulty variant: the row is deleted first, the signal and the drop come after.
TenantMixin_delete_RowFirst(st, n, force_drop, raisers, deleteFails) ==
    LET deleted == super_delete(st, n, deleteFails)
    IN  IF deleted.raised \/ ~(force_drop \/ autoDrop) THEN deleted
        ELSE LET s == send(deleted, "pre_drop", raisers)
             IN  IF s.raised THEN s ELSE drop_schema(s, n)

\* Faulty variant: the schema is dropped whatever force_drop and auto_drop_schema say.
TenantMixin_delete_AlwaysDrops(st, n, force_drop, raisers, deleteFails) ==
    LET s == send(st, "pre_drop", raisers)
    IN  IF s.raised THEN s ELSE super_delete(drop_schema(s, n), n, deleteFails)

\* TenantMixin.delete(force_drop)
TenantMixin_delete(st, n, force_drop, raisers, deleteFails) ==
    LET dropped ==
            IF force_drop \/ autoDrop
            THEN LET s == send(st, "pre_drop", raisers)
                 IN  IF s.raised THEN s ELSE drop_schema(s, n)
            ELSE st
    IN  IF dropped.raised THEN dropped ELSE super_delete(dropped, n, deleteFails)

\* Faulty variant: the post-sync signal is sent before the schema is created.
CreateAndNotify_SendsFirst(st, n, mode, raisers) ==
    LET p == send(st, "post_sync", raisers)
    IN  IF p.raised THEN p ELSE create_schema(p, n, TRUE, mode)

\* The body of both try blocks of TenantMixin.save: create_schema, then the
\* post-sync signal.
CreateAndNotify(st, n, mode, raisers) ==
    LET c == create_schema(st, n, TRUE, mode)
    IN  IF c.raised THEN c ELSE send(c, "post_sync", raisers)

\* Faulty variant: the compensation calls self.delete() without force_drop.
CompensateCreate_NoForce(st, n, raisers, deleteFails) ==
    [TenantMixin_delete([st EXCEPT !.raised = FALSE], n, FALSE, raisers,
                        deleteFails)
     EXCEPT !.raised = TRUE]

\* "except Exception: self.delete(force_drop=True); raise"
CompensateCreate(st, n, raisers, deleteFails) ==
    [TenantMixin_delete([st EXCEPT !.raised = FALSE], n, TRUE, raisers,
                        deleteFails)
     EXCEPT !.raised = TRUE]

\* Faulty variant: the compensation of the first branch, copied to the second.
CompensateSync_DeletesRow(st, n) ==
    [TenantMixin_delete([st EXCEPT !.raised = FALSE], n, TRUE, {}, FALSE)
     EXCEPT !.raised = TRUE]

\* "except Exception: self.drop_schema(); raise"
CompensateSync(st, n) ==
    [drop_schema(st, n) EXCEPT !.raised = TRUE]

\* Faulty variant: a new tenant gets its schema whatever auto_create_schema
\* says.
TenantMixin_save_IgnoresAutoCreate(st, n, is_new, mode, raisers, deleteFails) ==
    LET s == super_save(st, n, is_new)
    IN  IF s.raised THEN s
        ELSE IF is_new
        THEN LET t == CreateAndNotify(s, n, mode, raisers)
             IN  IF t.raised THEN CompensateCreate(t, n, raisers, deleteFails)
                 ELSE t
        ELSE IF autoCreate /\ ~schema_exists(Step(s, "schema_exists"), n)
        THEN LET t == CreateAndNotify(Step(s, "schema_exists"), n, mode, raisers)
             IN  IF t.raised THEN CompensateSync(t, n)
                 ELSE t
        ELSE IF autoCreate THEN Step(s, "schema_exists")
        ELSE s

\* Faulty variant: the existing-tenant branch does not ask whether the schema
\* exists.
TenantMixin_save_NoExistsCheck(st, n, is_new, mode, raisers, deleteFails) ==
    LET s == super_save(st, n, is_new)
    IN  IF s.raised THEN s
        ELSE IF is_new /\ autoCreate
        THEN LET t == CreateAndNotify(s, n, mode, raisers)
             IN  IF t.raised THEN CompensateCreate(t, n, raisers, deleteFails)
                 ELSE t
        ELSE IF is_new
        THEN send(s, "needs_sync", raisers)
        ELSE IF autoCreate
        THEN LET t == CreateAndNotify(s, n, mode, raisers)
             IN  IF t.raised THEN CompensateSync(t, n)
                 ELSE t
        ELSE s

\* TenantMixin.save
TenantMixin_save(st, n, is_new, mode, raisers, deleteFails) ==
    LET s == super_save(st, n, is_new)
    IN  IF s.raised THEN s
        ELSE IF is_new /\ autoCreate
        THEN LET t == CreateAndNotify(s, n, mode, raisers)
             IN  IF t.raised THEN CompensateCreate(t, n, raisers, deleteFails)
                 ELSE t
        ELSE IF is_new
        THEN send(s, "needs_sync", raisers)
        ELSE IF autoCreate /\ ~schema_exists(Step(s, "schema_exists"), n)
        THEN LET t == CreateAndNotify(Step(s, "schema_exists"), n, mode, raisers)
             IN  IF t.raised THEN CompensateSync(t, n)
                 ELSE t
        ELSE IF autoCreate THEN Step(s, "schema_exists")
        ELSE s

\* TenantMixin.serializable_fields: the tenant object itself.
serializable_fields(n) == n

NoCall ==
    [op |-> "none", tenant |-> 0, is_new |-> FALSE, force_drop |-> FALSE,
     result |-> "ok", steps |-> <<>>, failed |-> {}, payloads |-> {},
     pre_records |-> {}, pre_schemas |-> {}]

Finished(op, n, is_new, force_drop, st) ==
    [op |-> op, tenant |-> n, is_new |-> is_new, force_drop |-> force_drop,
     result |-> IF st.raised THEN "error" ELSE "ok",
     steps |-> st.steps, failed |-> st.failed,
     payloads |-> {serializable_fields(n) : i \in
                      {j \in 1..Len(st.steps) : st.steps[j] \in Signals}},
     pre_records |-> records, pre_schemas |-> schemas]

\* tenant.save() of a tenant object that has no row yet (pk is None)
CreateTenant(n, mode, raisers, deleteFails) ==
    LET st == TenantMixin_save(CallState(records, schemas), n, TRUE, mode,
                               raisers, deleteFails)
    IN  /\ records' = st.records
        /\ schemas' = st.schemas
        /\ lastCall' = Finished("save", n, TRUE, FALSE, st)
        /\ domains' = Cascade(domains, records, st.records)
        /\ UNCHANGED <<autoCreate, autoDrop, scopeVars, tx>>

\* tenant.save() of a tenant object loaded from its row
SaveExisting(n, mode, raisers) ==
    /\ n \in records
    /\ LET st == TenantMixin_save(CallState(records, schemas), n, FALSE, mode,
                                  raisers, FALSE)
       IN  /\ records' = st.records
           /\ schemas' = st.schemas
           /\ lastCall' = Finished("save", n, FALSE, FALSE, st)
           /\ domains' = Cascade(domains, records, st.records)
    /\ UNCHANGED <<autoCreate, autoDrop, scopeVars, tx>>

\* tenant.delete(force_drop) of a tenant object loaded from its row
DeleteTenant(n, force_drop, raisers, deleteFails) ==
    /\ n \in records
    /\ LET st == TenantMixin_delete(CallState(records, schemas), n, force_drop,
                                    raisers, deleteFails)
       IN  /\ records' = st.records
           /\ schemas' = st.schemas
           /\ lastCall' = Finished("delete", n, FALSE, force_drop, st)
           /\ domains' = Cascade(domains, records, st.records)
    /\ UNCHANGED <<autoCreate, autoDrop, scopeVars, tx>>

\* ======================================================================
\* Scoped activation: TenantMixin.__enter__ / __exit__ / activate / deactivate
\* ======================================================================

\* connection.set_schema(schema_name) on the connection of unit of work u.
set_schema(act, u, name) == [act EXCEPT ![u] = name]

\* connection.set_schema_to_public()
set_schema_to_public(act, u) == set_schema(act, u, PUBLIC)

NoExit == [valid |-> FALSE, obj |-> 0, prior |-> PUBLIC, restored |-> PUBLIC,
           raised |-> FALSE]

\* TenantMixin.activate
Activate(u, o) ==
    /\ active' = set_schema(active, u, objSchema[o])
    /\ UNCHANGED <<previous_schema, objSchema, scopes, lastExit>>
    /\ UNCHANGED <<lifecycleVars, domainVars>>

\* TenantMixin.deactivate
Deactivate(u) ==
    /\ active' = set_schema_to_public(active, u)
    /\ UNCHANGED <<previous_schema, objSchema, scopes, lastExit>>
    /\ UNCHANGED <<lifecycleVars, domainVars>>

\* TenantMixin.__enter__: "with tenant:" opened by unit of work u. The scope
\* remembers (for the properties only) the schema that was active before it.
Enter(u, o) ==
    /\ Len(scopes[u]) < MaxDepth
    /\ previous_schema' = [previous_schema EXCEPT ![o] = active[u]]
    /\ active' = set_schema(active, u, objSchema[o])
    /\ scopes' = [scopes EXCEPT ![u] = Append(@, [obj |-> o, prior |-> active[u]])]
    /\ UNCHANGED <<objSchema, lastExit>>
    /\ UNCHANGED <<lifecycleVars, domainVars>>

\* TenantMixin.__exit__: the innermost "with" block of u ends, by a normal
\* return or by an exception of its body (raised); __exit__ returns None, so
\* the exception goes on to the enclosing block.
Exit(u, raised) ==
    /\ scopes[u] # <<>>
    /\ LET top == scopes[u][Len(scopes[u])]
       IN  /\ active' = set_schema(active, u, previous_schema[top.obj])
           /\ lastExit' = [lastExit EXCEPT ![u] =
                  [valid |-> TRUE, obj |-> top.obj, prior |-> top.prior,
                   restored |-> previous_schema[top.obj], raised |-> raised]]
    /\ scopes' = [scopes EXCEPT ![u] = SubSeq(@, 1, Len(@) - 1)]
    /\ UNCHANGED <<previous_schema, objSchema>>
    /\ UNCHANGED <<lifecycleVars, domainVars>>

\* ======================================================================
\* Domains: DomainMixin.save, one transaction per call (READ COMMITTED: each
\* statement sees the rows committed when it runs plus the transaction's own
\* writes; a row written by a transaction is locked until it ends)
\* ======================================================================

NoTx == [pc |-> "idle", domain |-> 0, pk |-> FALSE, tenant |-> 0,
         requested |-> FALSE, is_primary |-> FALSE, demoted |-> {}]

Running(t) == t.pc \in {"exists", "update", "save"}

\* The rows a transaction has written and not yet committed.
Locked(t) == IF Running(t) THEN t.demoted ELSE {}

LockedByOthers(u) == UNION {Locked(tx[v]) : v \in Units \ {u}}

\* objects.filter(tenant=self.tenant, is_primary=True).exclude(pk=self.pk),
\* evaluated against the committed rows.
domain_list(rows, t) ==
    {e \in Domains :
        /\ rows[e] # NoRow
        /\ rows[e].tenant = t.tenant
        /\ rows[e].is_primary
        /\ ~(t.pk /\ e = t.domain)}

\* Faulty variant: the value the caller supplied is stored as it is.
EffectivePrimary_RequestedOnly(rows, t) == t.is_primary

\* self.is_primary or (not domain_list.exists())
EffectivePrimary(rows, t) == t.is_primary \/ domain_list(rows, t) = {}

\* A call of domain.save() starts: d is a new domain (no row, pk None) or an
\* existing one, re-saved with the tenant and is_primary of the object.
Begin(u, d, tenant, requested) ==
    /\ ~Running(tx[u])
    /\ tenant \in records
    /\ tx' = [tx EXCEPT ![u] =
            [pc |-> "exists", domain |-> d, pk |-> domains[d] # NoRow,
             tenant |-> tenant, requested |-> requested,
             is_primary |-> requested, demoted |-> {}]]
    /\ UNCHANGED <<domains, lifecycleVars, scopeVars>>

\* Faulty variant: the other primaries are demoted whatever the effective
\* value is.
Exists_AlwaysUpdates(u) ==
    /\ tx[u].pc = "exists"
    /\ tx' = [tx EXCEPT ![u].is_primary = EffectivePrimary(domains, tx[u]),
                        ![u].pc = "update"]
    /\ UNCHANGED <<domains, lifecycleVars, scopeVars>>

\* self.is_primary = self.is_primary or (not domain_list.exists()), and the
\* test "if self.is_primary"
Exists(u) ==
    /\ tx[u].pc = "exists"
    /\ LET p == EffectivePrimary(domains, tx[u])
       IN  tx' = [tx EXCEPT ![u].is_primary = p,
                            ![u].pc = IF p THEN "update" ELSE "save"]
    /\ UNCHANGED <<domains, lifecycleVars, scopeVars>>

\* domain_list.update(is_primary=False): the query runs again, now as an
\* UPDATE, and waits for the rows another transaction has written.
Update(u) ==
    /\ tx[u].pc = "update"
    /\ domain_list(domains, tx[u]) \cap LockedByOthers(u) = {}
    /\ tx' = [tx EXCEPT ![u].demoted = domain_list(domains, tx[u]),
                        ![u].pc = "save"]
    /\ UNCHANGED <<domains, lifecycleVars, scopeVars>>

\* The rows after the transaction's writes are applied.
Applied(rows, t) ==
    [e \in Domains |->
        IF e = t.domain THEN [tenant |-> t.tenant, is_primary |-> t.is_primary]
        ELSE IF e \in t.demoted /\ rows[e] # NoRow
             THEN [rows[e] EXCEPT !.is_primary = FALSE]
        ELSE rows[e]]

\* What a finished call leaves of itself: how it ended, its arguments, and
\* the rows its update statement wrote for good (none when rolled back).
Ended(t, how) ==
    [NoTx EXCEPT !.pc = how, !.domain = t.domain, !.tenant = t.tenant,
                 !.requested = t.requested,
                 !.demoted = IF how = "committed" THEN t.demoted ELSE {}]

\* super().save() and the end of the transaction.atomic block: INSERT of a
\* new row or UPDATE of the object's row, then the commit of all the writes.
\* The domain is unique: the INSERT of a domain that has a committed row
\* fails, and the transaction is rolled back.
SaveRow(u) ==
    /\ tx[u].pc = "save"
    /\ tx[u].domain \notin LockedByOthers(u)
    /\ IF ~tx[u].pk /\ domains[tx[u].domain] # NoRow
       THEN /\ tx' = [tx EXCEPT ![u] = Ended(@, "rolled_back")]
            /\ UNCHANGED domains
       ELSE /\ domains' = Applied(domains, tx[u])
            /\ tx' = [tx EXCEPT ![u] = Ended(@, "committed")]
    /\ UNCHANGED <<lifecycleVars, scopeVars>>

\* Faulty variant: no transaction, the demotions written before the failure
\* stay.
Rollback_KeepsDemotions(u) ==
    /\ Running(tx[u])
    /\ tx' = [tx EXCEPT ![u] = Ended(@, "rolled_back")]
    /\ domains' = [e \in Domains |->
                      IF e \in tx[u].demoted /\ domains[e] # NoRow
                      THEN [domains[e] EXCEPT !.is_primary = FALSE]
                      ELSE domains[e]]
    /\ UNCHANGED <<lifecycleVars, scopeVars>>

\* A failure inside the transaction.atomic block: everything is rolled back.
Rollback(u) ==
    /\ Running(tx[u])
    /\ tx' = [tx EXCEPT ![u] = Ended(@, "rolled_back")]
    /\ UNCHANGED <<domains, lifecycleVars, scopeVars>>

\* TenantMixin.get_primary_domain: self.domains.get(is_primary=True) returns
\* the one matching row; DoesNotExist is caught and becomes None;
\* MultipleObjectsReturned, raised by get() when several rows match, is not
\* caught.
get_primary_domain(rows, t) ==
    LET found == {d \in Domains :
                     /\ rows[d] # NoRow
                     /\ rows[d].tenant = t
                     /\ rows[d].is_primary}
    IN  IF found = {} THEN [raised |-> FALSE, value |-> "None", found |-> {}]
        ELSE IF Cardinality(found) = 1
        THEN [raised |-> FALSE, value |-> "domain", found |-> found]
        ELSE [raised |-> TRUE, value |-> "MultipleObjectsReturned",
              found |-> found]

\* ======================================================================
\* Specifications
\* ======================================================================

InitScopeIdle ==
    /\ active = [u \in Units |-> PUBLIC]
    /\ previous_schema = [o \in TenantObjects |-> Unset]
    /\ objSchema = [o \in TenantObjects |-> 1]
    /\ scopes = [u \in Units |-> <<>>]
    /\ lastExit = [u \in Units |-> NoExit]

InitDomainsIdle ==
    /\ domains = [d \in Domains |-> NoRow]
    /\ tx = [u \in Units |-> NoTx]

\* --- the tenant lifecycle, on any database the calls can have left behind
InitLifecycle ==
    /\ autoCreate \in BOOLEAN
    /\ autoDrop \in BOOLEAN
    /\ records \in SUBSET TenantNames
    /\ schemas \in SUBSET TenantNames
    /\ lastCall = NoCall
    /\ InitScopeIdle
    /\ InitDomainsIdle

\* The inputs of a call: the tenant, what the namespace creation does, the
\* signals that have a receiver that raises, whether the row deletion fails.
\* A call draws only the inputs its code can reach.
NextLifecycle ==
    \E n \in SchemaNames :
        \/ \E mode \in CreateModes, raisers \in SUBSET Signals,
               deleteFails \in BOOLEAN :
               CreateTenant(n, mode, raisers, deleteFails)
        \/ \E mode \in CreateModes, raisers \in SUBSET {"post_sync"} :
               SaveExisting(n, mode, raisers)
        \/ \E force_drop \in BOOLEAN, raisers \in SUBSET {"pre_drop"},
               deleteFails \in BOOLEAN :
               DeleteTenant(n, force_drop, raisers, deleteFails)

SpecLifecycle == InitLifecycle /\ [][NextLifecycle]_vars

\* --- scoped activation by one unit of work
InitLifecycleIdle ==
    /\ autoCreate = TRUE
    /\ autoDrop = FALSE
    /\ records = TenantNames
    /\ schemas = TenantNames
    /\ lastCall = NoCall

InitScope ==
    /\ InitLifecycleIdle
    /\ InitDomainsIdle
    /\ active = [u \in Units |-> PUBLIC]
    /\ previous_schema = [o \in TenantObjects |-> Unset]
    /\ objSchema \in [TenantObjects -> TenantNames]
    /\ scopes = [u \in Units |-> <<>>]
    /\ lastExit = [u \in Units |-> NoExit]

NextScope ==
    \E u \in {"u1"} :
        \/ \E o \in TenantObjects : Activate(u, o)
        \/ Deactivate(u)
        \/ \E o \in TenantObjects : Enter(u, o)
        \/ \E raised \in BOOLEAN : Exit(u, raised)

SpecScope == InitScope /\ [][NextScope]_vars

\* --- scoped activation by two units of work (threads, each with its own
\* connection) that can hold the same tenant objects. A unit of work does not
\* open "with tenant:" on an object it already has open, so that what one
\* unit does alone restores correctly.
EnterNotOpen(u, o) ==
    /\ Len(scopes[u]) < MaxSessionDepth
    /\ \A i \in 1..Len(scopes[u]) : scopes[u][i].obj # o
    /\ Enter(u, o)

NextSession ==
    \E u \in Units :
        \/ \E o \in TenantObjects : Activate(u, o)
        \/ Deactivate(u)
        \/ \E o \in TenantObjects : EnterNotOpen(u, o)
        \/ \E raised \in BOOLEAN : Exit(u, raised)

\* Each tenant object is loaded from the row of one tenant.
InitSession ==
    /\ InitScope
    /\ objSchema = [o \in TenantObjects |-> ((o - 1) % MaxTenants) + 1]

SpecSession == InitSession /\ [][NextSession]_vars

\* --- domain saves, one call after the other (one unit of work)
InitDomains ==
    /\ InitLifecycleIdle
    /\ InitScopeIdle
    /\ InitDomainsIdle

NextDomainsSeq ==
    \E u \in {"u1"} :
        \/ \E d \in Domains, t \in TenantNames, requested \in BOOLEAN :
               Begin(u, d, t, requested)
        \/ Exists(u)
        \/ Update(u)
        \/ SaveRow(u)
        \/ Rollback(u)

SpecDomainsSeq == InitDomains /\ [][NextDomainsSeq]_vars

\* --- domain saves by two units of work at once
NextDomains ==
    \E u \in Units :
        \/ \E d \in Domains, t \in TenantNames, requested \in BOOLEAN :
               Begin(u, d, t, requested)
        \/ Exists(u)
        \/ Update(u)
        \/ SaveRow(u)
        \/ Rollback(u)

SpecDomains == InitDomains /\ [][NextDomains]_vars

\* ======================================================================
\* Properties
\* ======================================================================

StepsOf(call) == {call.steps[i] : i \in 1..Len(call.steps)}

IsPrefix(a, b) == Len(a) <= Len(b) /\ a = SubSeq(b, 1, Len(a))

\* The last call was tenant.save() of a new tenant with auto-creation on.
IsCreateTenant ==
    lastCall.op = "save" /\ lastCall.is_new /\ autoCreate

\* The last call was tenant.save() of an existing tenant, auto-creation on,
\* whose schema was missing.
IsEnsureSchema ==
    /\ lastCall.op = "save" /\ ~lastCall.is_new /\ autoCreate
    /\ lastCall.tenant \notin lastCall.pre_schemas

\* The last call was tenant.delete() with a cascading drop.
IsCascadingDelete ==
    lastCall.op = "delete" /\ (lastCall.force_drop \/ autoDrop)

CreationFailed == "create_schema" \in lastCall.failed

NoRecordNoNamespace ==
    lastCall.tenant \notin records /\ lastCall.tenant \notin schemas

RecordAndNamespace ==
    lastCall.tenant \in records /\ lastCall.tenant \in schemas

RecordWithoutNamespace ==
    lastCall.tenant \in records /\ lastCall.tenant \notin schemas

NamespaceWithoutRecord ==
    lastCall.tenant \notin records /\ lastCall.tenant \in schemas

Primaries(t) ==
    {d \in Domains :
        domains[d] # NoRow /\ domains[d].tenant = t /\ domains[d].is_primary}

DomainsOf(t) ==
    {d \in Domains : domains[d] # NoRow /\ domains[d].tenant = t}

\* C1: after any sequence of domain saves made one after the other, every
\* tenant has at most one primary domain, and a tenant that has a domain has
\* exactly one primary domain.
C1_PrimaryDomainUniqueness ==
    \A t \in TenantNames :
        /\ Cardinality(Primaries(t)) <= 1
        /\ DomainsOf(t) # {} => Cardinality(Primaries(t)) = 1

\* C2: when the namespace creation of CreateTenant fails (and the database
\* fails nowhere else in the call), the call returns its error with the
\* namespace absent and the tenant record absent.
C2_CreationAllOrNothing ==
    (/\ IsCreateTenant
     /\ CreationFailed
     /\ lastCall.failed \subseteq {"create_schema"} \cup Signals)
        => /\ lastCall.result = "error"
           /\ NoRecordNoNamespace

\* C3: when two units of work have each committed a save of a different
\* domain of the same tenant, both asking for is_primary = true, the two
\* domains are not both primary.
C3_ConcurrentPrimarySavesSerialized ==
    LET a == tx["u1"]
        b == tx["u2"]
    IN  (/\ a.pc = "committed" /\ b.pc = "committed"
         /\ a.domain # b.domain
         /\ a.tenant = b.tenant
         /\ a.requested /\ b.requested)
            => ~(/\ domains[a.domain].tenant = a.tenant
                 /\ domains[b.domain].tenant = a.tenant
                 /\ domains[a.domain].is_primary
                 /\ domains[b.domain].is_primary)

\* C4: every exit of a "with tenant:" block, by return or by exception,
\* restores the schema that was active when that block was entered, whatever
\* its body did.
C4_ScopeExitRestoresPrior ==
    \A u \in Units :
        lastExit[u].valid => lastExit[u].restored = lastExit[u].prior

C6_SyncFailurePreservesRecord ==
    (IsEnsureSchema /\ CreationFailed)
        => /\ lastCall.result = "error"
           /\ lastCall.tenant \in records
           /\ lastCall.tenant \notin schemas
           /\ "delete_row" \notin StepsOf(lastCall)
           /\ records = lastCall.pre_records

C6_Witness ==
    /\ IsEnsureSchema
    /\ CreationFailed
    /\ lastCall.steps = <<"save_row", "schema_exists", "create_schema", "drop_schema">>
    /\ lastCall.tenant \in records

\* C7: a receiver of PostSync, NeedsSync or PreDrop that raises does not
\* make the lifecycle call fail, does not start the compensating cleanup,
\* and does not stop the drop and the record deletion of DeleteTenant.
C7_PublicationNeverFailsCall ==
    (lastCall.failed # {} /\ lastCall.failed \subseteq Signals)
        => /\ lastCall.result = "ok"
           /\ lastCall.op = "save" => "drop_schema" \notin StepsOf(lastCall)
           /\ lastCall.op = "delete" => "delete_row" \in StepsOf(lastCall)

\* C8: when CreateTenant fails at the namespace creation (and nothing else
\* fails), the tenant records and the namespaces after the call are those
\* before the call.
C8_FailedCreationRestoresPreState ==
    (IsCreateTenant /\ lastCall.failed = {"create_schema"})
        => /\ records = lastCall.pre_records
           /\ schemas = lastCall.pre_schemas

\* C9: a cascading DeleteTenant emits PreDrop, then drops the namespace,
\* then deletes the record, in that order and each step only after the one
\* before it; when the record deletion fails, the namespace stays dropped.
C9_CascadingDeleteOrder ==
    IsCascadingDelete
        => /\ IsPrefix(lastCall.steps, <<"pre_drop", "drop_schema", "delete_row">>)
           /\ "pre_drop" \notin lastCall.failed
                => lastCall.steps = <<"pre_drop", "drop_schema", "delete_row">>
           /\ "delete_row" \in lastCall.failed
                => /\ lastCall.result = "error"
                   /\ lastCall.tenant \notin schemas
                   /\ lastCall.tenant \in records
           /\ lastCall.result = "ok" => NoRecordNoNamespace

C9_Witness ==
    /\ IsCascadingDelete
    /\ "delete_row" \in lastCall.failed
    /\ lastCall.tenant \in lastCall.pre_schemas
    /\ lastCall.tenant \notin schemas

\* C10: DeleteTenant without force_drop, automatic drop off, deletes the
\* record, leaves every namespace as it was and emits no PreDrop.
C10_PlainDeleteLeavesNamespace ==
    (lastCall.op = "delete" /\ ~lastCall.force_drop /\ ~autoDrop)
        => /\ schemas = lastCall.pre_schemas
           /\ lastCall.steps = <<"delete_row">>
           /\ lastCall.result = "ok"
                => records = lastCall.pre_records \ {lastCall.tenant}
           /\ lastCall.result = "error" => records = lastCall.pre_records

C10_Witness ==
    /\ lastCall.op = "delete" /\ ~lastCall.force_drop /\ ~autoDrop
    /\ lastCall.result = "ok"
    /\ lastCall.tenant \in schemas
    /\ lastCall.tenant \notin records

\* C11: a new tenant saved with auto-creation off touches no namespace (no
\* exists, create or drop), emits NeedsSync exactly once and no PostSync.
C11_NoAutoCreateOnlyNeedsSync ==
    (/\ lastCall.op = "save" /\ lastCall.is_new /\ ~autoCreate
     /\ "save_row" \notin lastCall.failed)
        => /\ lastCall.steps = <<"save_row", "needs_sync">>
           /\ schemas = lastCall.pre_schemas
           /\ lastCall.payloads = {lastCall.tenant}

C11_Witness ==
    /\ lastCall.op = "save" /\ lastCall.is_new /\ ~autoCreate
    /\ lastCall.result = "ok"
    /\ RecordWithoutNamespace

\* C12: CreateTenant and EnsureSchema emit PostSync exactly when the
\* namespace creation succeeded, right after it and carrying the tenant;
\* a failed creation emits none, and no other call emits one.
C12_PostSyncIffCreated ==
    LET n == Len(lastCall.steps)
        created == /\ "create_schema" \in StepsOf(lastCall)
                   /\ "create_schema" \notin lastCall.failed
    IN  /\ created <=> "post_sync" \in StepsOf(lastCall)
        /\ \A i \in 1..n :
              lastCall.steps[i] = "post_sync"
                 => /\ i > 1 /\ lastCall.steps[i - 1] = "create_schema"
                    /\ \A j \in 1..n : lastCall.steps[j] = "post_sync" => j = i
                    /\ lastCall.payloads = {lastCall.tenant}
                    /\ lastCall.tenant \notin lastCall.pre_schemas
        /\ "post_sync" \in StepsOf(lastCall)
              => lastCall.op = "save" /\ autoCreate
        /\ ("post_sync" \in StepsOf(lastCall) /\ lastCall.result = "ok")
              => lastCall.tenant \in schemas

C12_Witness ==
    /\ IsEnsureSchema
    /\ lastCall.steps = <<"save_row", "schema_exists", "create_schema", "post_sync">>
    /\ lastCall.result = "ok"
    /\ RecordAndNamespace

\* C19 (no receiver raising): every drop of a namespace made by a call comes
\* right after a PreDrop of that call, and every PreDrop is followed by the
\* drop.
C19_EveryDropAnnounced ==
    (lastCall.failed \cap Signals = {})
        => \A i \in 1..Len(lastCall.steps) :
              /\ lastCall.steps[i] = "drop_schema"
                    => i > 1 /\ lastCall.steps[i - 1] = "pre_drop"
              /\ lastCall.steps[i] = "pre_drop"
                    => /\ i < Len(lastCall.steps)
                       /\ lastCall.steps[i + 1] = "drop_schema"

\* C20: the save of an existing tenant whose type has auto-creation off, or
\* whose namespace exists, creates and drops no namespace and emits no
\* event: only the record is written.
C20_ResaveTouchesOnlyRecord ==
    (/\ lastCall.op = "save" /\ ~lastCall.is_new
     /\ ~autoCreate \/ lastCall.tenant \in lastCall.pre_schemas)
        => /\ lastCall.result = "ok"
           /\ StepsOf(lastCall) \subseteq {"save_row", "schema_exists"}
           /\ "save_row" \in StepsOf(lastCall)
           /\ schemas = lastCall.pre_schemas
           /\ records = lastCall.pre_records

C20_Witness ==
    /\ lastCall.op = "save" /\ ~lastCall.is_new /\ autoCreate
    /\ lastCall.tenant \in lastCall.pre_schemas
    /\ lastCall.steps = <<"save_row", "schema_exists">>
    /\ RecordAndNamespace

\* C18: the save of a tenant whose schema name breaks the naming rule fails
\* before the row is written and before any schema is created or dropped.
C18_InvalidNameRejectedBeforeAnyMutation ==
    (lastCall.op = "save" /\ ~check_schema_name(lastCall.tenant))
        => /\ lastCall.result = "error"
           /\ StepsOf(lastCall) \cap {"save_row", "create_schema", "drop_schema"} = {}
           /\ records = lastCall.pre_records
           /\ schemas = lastCall.pre_schemas

\* The step that ends a call of domain.save() by unit of work u.
SaveEnds(u) ==
    /\ Running(tx[u])
    /\ tx'[u].pc \in {"committed", "rolled_back"}

\* C13: a save of domain D with is_primary = true for tenant T, another
\* domain of T being primary, ends committed with D primary and every other
\* domain of T not primary, or rolled back with every domain row as it was;
\* never with a domain demoted and D not stored as primary.
C13_DemotionAtomicity ==
    [][\A u \in Units :
         (/\ SaveEnds(u)
          /\ tx[u].requested
          /\ domain_list(domains, tx[u]) # {})
            => LET D == tx[u].domain
                   T == tx[u].tenant
               IN  \/ /\ tx'[u].pc = "committed"
                      /\ domains'[D] = [tenant |-> T, is_primary |-> TRUE]
                      /\ \A e \in Domains \ {D} :
                            /\ domains'[e].tenant = T => ~domains'[e].is_primary
                            /\ domains'[e].tenant # T => domains'[e] = domains[e]
                   \/ /\ tx'[u].pc = "rolled_back"
                      /\ domains' = domains]_vars

C13_Witness ==
    LET t == tx["u1"]
    IN  /\ t.pc = "committed" /\ t.requested
        /\ t.demoted # {}
        /\ domains[t.domain] = [tenant |-> t.tenant, is_primary |-> TRUE]
        /\ \A e \in t.demoted :
              domains[e] = [tenant |-> t.tenant, is_primary |-> FALSE]

\* C14: a committed save of a domain for a tenant that has no other primary
\* domain stores the domain as primary, whatever is_primary the caller gave.
C14_FirstDomainIsPrimary ==
    [][\A u \in Units :
         (/\ SaveEnds(u)
          /\ tx'[u].pc = "committed"
          /\ domain_list(domains, tx[u]) = {})
            => domains'[tx[u].domain] =
                   [tenant |-> tx[u].tenant, is_primary |-> TRUE]]_vars

C14_Witness ==
    LET t == tx["u1"]
    IN  /\ t.pc = "committed" /\ ~t.requested
        /\ domains[t.domain] = [tenant |-> t.tenant, is_primary |-> TRUE]
        /\ DomainsOf(t.tenant) = {t.domain}

\* C15: a committed save of a domain with is_primary = false, for a tenant
\* that has another primary domain, stores the domain as non-primary and
\* changes no other domain row.
C15_ExplicitFalseChangesNothingElse ==
    [][\A u \in Units :
         (/\ SaveEnds(u)
          /\ tx'[u].pc = "committed"
          /\ ~tx[u].requested
          /\ domain_list(domains, tx[u]) # {})
            => /\ domains'[tx[u].domain] =
                      [tenant |-> tx[u].tenant, is_primary |-> FALSE]
               /\ \A e \in Domains \ {tx[u].domain} :
                     domains'[e] = domains[e]]_vars

C15_Witness ==
    LET t == tx["u1"]
    IN  /\ t.pc = "committed" /\ ~t.requested
        /\ domains[t.domain] = [tenant |-> t.tenant, is_primary |-> FALSE]
        /\ Primaries(t.tenant) # {}
        /\ t.demoted = {}

\* C16: in every state, concurrent saves included, the primary-domain query
\* of a tenant returns its single primary domain, or None when it has none,
\* and never raises.
C16_PrimaryDomainNeverFails ==
    \A t \in TenantNames :
        LET r == get_primary_domain(domains, t)
        IN  /\ ~r.raised
            /\ Primaries(t) = {} => r.value = "None"
            /\ Primaries(t) # {} => r.value = "domain" /\ r.found = Primaries(t)

\* C17: with two units of work activating, deactivating and scoping schemas,
\* through the same tenant objects too, the exit of a scope of a unit of work
\* sets that unit's connection to the schema that unit had active when it
\* entered the scope, never to a schema the other unit had active.
C17_SessionIsolation ==
    \A u \in Units :
        lastExit[u].valid
            => lastExit[u].restored = lastExit[u].prior

====
